---- MODULE Spec2Model ----
(***************************************************************************)
(* Smart Calculator API (src/HW1/HW1.py): the restricted expression        *)
(* evaluator safe_evaluate with its tree walk _eval, and the three         *)
(* handlers around the process-wide "current expression" slot.             *)
(*                                                                         *)
(* Numbers are exact rationals n/d tagged with their Python type ("int" or *)
(* "float"); IEEE rounding and overflow of floats are not represented.     *)
(* A str constant is a run of one letter, represented by its length.       *)
(* A source text is represented by what ast.parse makes of it: the empty   *)
(* text, a text that does not parse, or the tree of a text that parses.    *)
(***************************************************************************)
EXTENDS Integers, Sequences, FiniteSets, TLC

\* current_expression  app.state.current_expression (line 13)
\* last_set            the text of the latest set_expression call (history)
\* response            what the latest handler call returned or raised
\* invoked             whether the latest call reached safe_evaluate
\* expr, variables     the arguments of that call of safe_evaluate (line 51)
\* outcome             its result, with the order in which _eval met the nodes
VARIABLES current_expression, last_set, response, invoked, expr, variables, outcome

vars == <<current_expression, last_set, response, invoked, expr, variables, outcome>>

(***************************************************************************)
(* Bounds of the model                                                     *)
(***************************************************************************)
\* most nodes of a tree handed to safe_evaluate directly
MaxNodes == 4
\* most nodes of an expression stored through set_expression
MaxSlotNodes == 2

(***************************************************************************)
(* Values                                                                  *)
(***************************************************************************)
Abs(i) == IF i < 0 THEN -i ELSE i

RECURSIVE Gcd(_, _)
Gcd(a, b) == IF b = 0 THEN a ELSE Gcd(b, a % b)

\* the rational n/d in lowest terms with a positive denominator (d # 0)
Rat(n, d) ==
    LET g == Gcd(Abs(n), Abs(d))
        s == IF d < 0 THEN -1 ELSE 1
    IN  [n |-> (s * n) \div g, d |-> (s * d) \div g]

PyInt(i) == [ty |-> "int", n |-> i, d |-> 1]
PyFloat(n, d) == [ty |-> "float", n |-> Rat(n, d).n, d |-> Rat(n, d).d]
PyStr(len) == [ty |-> "str", n |-> len, d |-> 1]
NoneValue == [ty |-> "NoneType", n |-> 0, d |-> 1]

IsNumber(v) == v.ty \in {"int", "float"}

\* Python's float(v) on a number
Float(v) == [ty |-> "float", n |-> v.n, d |-> v.d]

\* Python's v == 0
EqualsZero(v) == IsNumber(v) /\ v.n = 0

(***************************************************************************)
(* Results of a call: a returned value or a raised exception               *)
(***************************************************************************)
Return(v) == [ok |-> TRUE, value |-> v]
Raise(exc, text, arg) == [ok |-> FALSE, exc |-> exc, text |-> text, arg |-> arg]

\* the messages of the evaluator's ValueErrors
MsgUnboundVariable == "No value given for variable"
MsgDivisionByZero == "Division by zero in expression"
MsgUnsupportedOperator == "Unsupported operator"
MsgUnsupportedSyntax == "Unsupported syntax found"
MsgSyntaxError == "Syntax error"

(***************************************************************************)
(* The functions of module operator                                        *)
(***************************************************************************)
ResultType(a, b) == IF a.ty = "int" /\ b.ty = "int" THEN "int" ELSE "float"

TypeError(fn) == Raise("TypeError", "unsupported operand type(s)", fn)

operator_add(a, b) ==
    IF IsNumber(a) /\ IsNumber(b)
    THEN Return([ty |-> ResultType(a, b),
                 n |-> Rat(a.n * b.d + b.n * a.d, a.d * b.d).n,
                 d |-> Rat(a.n * b.d + b.n * a.d, a.d * b.d).d])
    ELSE IF a.ty = "str" /\ b.ty = "str" THEN Return(PyStr(a.n + b.n))
    ELSE TypeError("add")

operator_sub(a, b) ==
    IF IsNumber(a) /\ IsNumber(b)
    THEN Return([ty |-> ResultType(a, b),
                 n |-> Rat(a.n * b.d - b.n * a.d, a.d * b.d).n,
                 d |-> Rat(a.n * b.d - b.n * a.d, a.d * b.d).d])
    ELSE TypeError("sub")

operator_mul(a, b) ==
    IF IsNumber(a) /\ IsNumber(b)
    THEN Return([ty |-> ResultType(a, b),
                 n |-> Rat(a.n * b.n, a.d * b.d).n,
                 d |-> Rat(a.n * b.n, a.d * b.d).d])
    ELSE IF a.ty = "str" /\ b.ty = "int"
    THEN Return(PyStr(IF b.n > 0 THEN a.n * b.n ELSE 0))
    ELSE IF a.ty = "int" /\ b.ty = "str"
    THEN Return(PyStr(IF a.n > 0 THEN a.n * b.n ELSE 0))
    ELSE TypeError("mul")

operator_truediv(a, b) ==
    IF IsNumber(a) /\ IsNumber(b)
    THEN IF b.n = 0
         THEN Raise("ZeroDivisionError", "division by zero", "")
         ELSE Return(PyFloat(a.n * b.d, a.d * b.n))
    ELSE TypeError("truediv")

operator_neg(a) ==
    IF IsNumber(a) THEN Return([ty |-> a.ty, n |-> -a.n, d |-> a.d])
    ELSE TypeError("neg")

operator_pos(a) ==
    IF IsNumber(a) THEN Return(a) ELSE TypeError("pos")

\* calling one of the functions above by its name
Call2(fn, a, b) ==
    CASE fn = "add" -> operator_add(a, b)
      [] fn = "sub" -> operator_sub(a, b)
      [] fn = "mul" -> operator_mul(a, b)
      [] fn = "truediv" -> operator_truediv(a, b)
      [] OTHER -> TypeError(fn)

Call1(fn, a) ==
    CASE fn = "neg" -> operator_neg(a)
      [] fn = "pos" -> operator_pos(a)
      [] OTHER -> TypeError(fn)

(***************************************************************************)
(* Syntax trees, as ast.parse(expr, mode='eval').body gives them           *)
(***************************************************************************)
Constant(v) == [kind |-> "Constant", value |-> v]
Name(id) == [kind |-> "Name", id |-> id]
BinOp(op, l, r) == [kind |-> "BinOp", op |-> op, left |-> l, right |-> r]
UnaryOp(op, t) == [kind |-> "UnaryOp", op |-> op, operand |-> t]
\* a call without arguments, f(): a node kind outside the whitelist
CallNode(f) == [kind |-> "Call", func |-> f]

Names == {"x", "X"}
Leaves == {Constant(PyInt(0)), Constant(PyInt(2)), Constant(PyStr(1))}
              \cup {Name(id) : id \in Names}
BinaryOpTypes == {"Add", "Sub", "Mult", "Div", "Mod"}
UnaryOpTypes == {"USub", "UAdd", "Invert"}

\* the trees of exactly k nodes
TreesOfSize[k \in 1..(IF MaxNodes > MaxSlotNodes THEN MaxNodes ELSE MaxSlotNodes)] ==
    IF k = 1 THEN Leaves
    ELSE {UnaryOp(op, t) : op \in UnaryOpTypes, t \in TreesOfSize[k - 1]}
         \cup {CallNode(t) : t \in TreesOfSize[k - 1]}
         \cup UNION {{BinOp(op, l, r) : op \in BinaryOpTypes,
                                         l \in TreesOfSize[j],
                                         r \in TreesOfSize[k - 1 - j]}
                     : j \in 1..(k - 2)}

Trees(max) == UNION {TreesOfSize[k] : k \in 1..max}

\* source texts: the empty text, a text that is no expression, an expression
EmptyText == [text |-> "empty"]
BadText == [text |-> "malformed"]
Text(t) == [text |-> "expr", tree |-> t]
Sources(max) == {EmptyText, BadText} \cup {Text(t) : t \in Trees(max)}

ast_parse(source) ==
    IF source.text = "expr" THEN Return(source.tree)
    ELSE Raise("SyntaxError", "invalid syntax", "")

(***************************************************************************)
(* Variable bindings: None, or a dict as its set of <<key, value>> items   *)
(***************************************************************************)
None == [none |-> TRUE, items |-> {}]
Dict(items) == [none |-> FALSE, items |-> items]
BindValues == {PyFloat(0, 1), PyFloat(3, 1)}
Dicts == {Dict(items) : items \in
            {s \in SUBSET (Names \X BindValues) :
                \A p \in s, q \in s : p[1] = q[1] => p = q}}
Bindings == {None} \cup Dicts

Keys(items) == {p[1] : p \in items}
Lookup(items, key) == (CHOOSE p \in items : p[1] = key)[2]

(***************************************************************************)
(* safe_evaluate                                                           *)
(***************************************************************************)
\* the table with Sub bound to operator.add
allowed_operators_sub_adds ==
    [op_type \in {"Add", "Sub", "Mult", "Div", "USub", "UAdd"} |->
        CASE op_type = "Add" -> "add"
          [] op_type = "Sub" -> "add"
          [] op_type = "Mult" -> "mul"
          [] op_type = "Div" -> "truediv"
          [] op_type = "USub" -> "neg"
          [] op_type = "UAdd" -> "pos"]

allowed_operators ==
    [op_type \in {"Add", "Sub", "Mult", "Div", "USub", "UAdd"} |->
        CASE op_type = "Add" -> "add"
          [] op_type = "Sub" -> "sub"
          [] op_type = "Mult" -> "mul"
          [] op_type = "Div" -> "truediv"
          [] op_type = "USub" -> "neg"
          [] op_type = "UAdd" -> "pos"]

\* One call of _eval gives its result and, in visited, the paths of the
\* nodes _eval was entered on, in the order of entry.
EvalConstant(node, path) ==
    [out |-> Return(node.value), visited |-> <<path>>]

Lower(id) == IF id = "X" THEN "x" ELSE id

\* a lookup that ignores the case of the name
EvalName_caseless(node, items, path) ==
    [out |-> IF \E p \in items : Lower(p[1]) = Lower(node.id)
             THEN Return(Float((CHOOSE p \in items : Lower(p[1]) = Lower(node.id))[2]))
             ELSE Raise("ValueError", MsgUnboundVariable, node.id),
     visited |-> <<path>>]

EvalName(node, items, path) ==
    [out |-> IF node.id \in Keys(items)
             THEN Return(Float(Lookup(items, node.id)))
             ELSE Raise("ValueError", MsgUnboundVariable, node.id),
     visited |-> <<path>>]

\* the dispatch without the test of the divisor
ApplyBinOp_unguarded(op_type, left, right) ==
    IF op_type \notin DOMAIN allowed_operators
    THEN Raise("ValueError", MsgUnsupportedOperator, op_type)
    ELSE Call2(allowed_operators[op_type], left, right)

\* lines 76-83, with both operands evaluated
ApplyBinOp(op_type, left, right) ==
    IF op_type = "Div" /\ EqualsZero(right)
    THEN Raise("ValueError", MsgDivisionByZero, "")
    ELSE IF op_type \notin DOMAIN allowed_operators
    THEN Raise("ValueError", MsgUnsupportedOperator, op_type)
    ELSE Call2(allowed_operators[op_type], left, right)

\* the right operand evaluated before the left one
EvalBinOp_right_first(op_type, l, r, path) ==
    IF ~r.out.ok
    THEN [out |-> r.out, visited |-> <<path>> \o r.visited]
    ELSE IF ~l.out.ok
    THEN [out |-> l.out, visited |-> <<path>> \o r.visited \o l.visited]
    ELSE [out |-> ApplyBinOp(op_type, l.out.value, r.out.value),
          visited |-> <<path>> \o r.visited \o l.visited]

\* lines 74-83: l and r are the calls _eval(node.left) and _eval(node.right);
\* an exception of the first ends the walk before the second is made
EvalBinOp(op_type, l, r, path) ==
    IF ~l.out.ok
    THEN [out |-> l.out, visited |-> <<path>> \o l.visited]
    ELSE IF ~r.out.ok
    THEN [out |-> r.out, visited |-> <<path>> \o l.visited \o r.visited]
    ELSE [out |-> ApplyBinOp(op_type, l.out.value, r.out.value),
          visited |-> <<path>> \o l.visited \o r.visited]

\* line 86, with the operand evaluated: a dict subscript, no membership test
ApplyUnaryOp(op_type, operand) ==
    IF op_type \in DOMAIN allowed_operators
    THEN Call1(allowed_operators[op_type], operand)
    ELSE Raise("KeyError", "", op_type)

EvalUnaryOp(op_type, o, path) ==
    IF ~o.out.ok
    THEN [out |-> o.out, visited |-> <<path>> \o o.visited]
    ELSE [out |-> ApplyUnaryOp(op_type, o.out.value),
          visited |-> <<path>> \o o.visited]

\* no else branch: the function falls off its end and returns None
EvalElse_falls_through(node, path) ==
    [out |-> Return(NoneValue), visited |-> <<path>>]

EvalElse(node, path) ==
    [out |-> Raise("ValueError", MsgUnsupportedSyntax, ""), visited |-> <<path>>]

\* The ast.Num branch (line 67) is never taken: the parser gives every
\* literal as an ast.Constant, which line 65 takes first.
RECURSIVE _eval(_, _, _)
_eval(node, items, path) ==
    IF node.kind = "Constant" THEN EvalConstant(node, path)
    ELSE IF node.kind = "Name" THEN EvalName(node, items, path)
    ELSE IF node.kind = "BinOp"
    THEN EvalBinOp(node.op,
                   _eval(node.left, items, Append(path, "left")),
                   _eval(node.right, items, Append(path, "right")),
                   path)
    ELSE IF node.kind = "UnaryOp"
    THEN EvalUnaryOp(node.op,
                     _eval(node.operand, items, Append(path, "operand")),
                     path)
    ELSE EvalElse(node, path)

safe_evaluate(source, bindings) ==
    LET items == IF bindings.none THEN {} ELSE bindings.items
        tree == ast_parse(source)
    IN  IF tree.ok
        THEN _eval(tree.value, items, <<>>)
        ELSE [out |-> Raise("ValueError", MsgSyntaxError, ""), visited |-> <<>>]

NotCalled == [out |-> Raise("", "", ""), visited |-> <<>>]

(***************************************************************************)
(* The handlers                                                            *)
(***************************************************************************)
\* str(e) of an exception
StrOf(e) == <<e.text, e.arg>>
NoText == <<"", "">>

HTTPException(handler, status_code, prefix, text) ==
    [handler |-> handler, status |-> status_code,
     detail |-> [prefix |-> prefix, text |-> text]]

set_expression(data) ==
    /\ current_expression' = data
    /\ last_set' = data
    /\ response' = [handler |-> "set_expression", status |-> 200,
                    current_expression |-> current_expression']
    /\ invoked' = FALSE
    /\ expr' = EmptyText
    /\ variables' = None
    /\ outcome' = NotCalled

get_expression ==
    /\ response' = [handler |-> "get_expression", status |-> 200,
                    current_expression |-> current_expression]
    /\ invoked' = FALSE
    /\ expr' = EmptyText
    /\ variables' = None
    /\ outcome' = NotCalled
    /\ UNCHANGED <<current_expression, last_set>>

ExecuteResponse(source, bindings, result) ==
    IF result.ok
    THEN [handler |-> "execute_expression", status |-> 200,
          expression |-> source,
          variables_used |-> IF bindings.none THEN {} ELSE bindings.items,
          result |-> result.value]
    ELSE IF result.exc = "ValueError"
    THEN HTTPException("execute_expression", 400, "", StrOf(result))
    ELSE HTTPException("execute_expression", 500,
                       "Internal evaluation error: ", StrOf(result))

\* an execute that consumes the slot
execute_expression_consuming(data) ==
    IF current_expression = EmptyText
    THEN /\ response' = HTTPException("execute_expression", 400,
                                      "Expression not set", NoText)
         /\ invoked' = FALSE
         /\ expr' = EmptyText
         /\ variables' = None
         /\ outcome' = NotCalled
         /\ UNCHANGED <<current_expression, last_set>>
    ELSE /\ invoked' = TRUE
         /\ expr' = current_expression
         /\ variables' = data
         /\ outcome' = safe_evaluate(current_expression, data)
         /\ response' = ExecuteResponse(current_expression, data, outcome'.out)
         /\ current_expression' = EmptyText
         /\ UNCHANGED last_set

execute_expression(data) ==
    IF current_expression = EmptyText
    THEN /\ response' = HTTPException("execute_expression", 400,
                                      "Expression not set", NoText)
         /\ invoked' = FALSE
         /\ expr' = EmptyText
         /\ variables' = None
         /\ outcome' = NotCalled
         /\ UNCHANGED <<current_expression, last_set>>
    ELSE /\ invoked' = TRUE
         /\ expr' = current_expression
         /\ variables' = data
         /\ outcome' = safe_evaluate(current_expression, data)
         /\ response' = ExecuteResponse(current_expression, data, outcome'.out)
         /\ UNCHANGED <<current_expression, last_set>>

NoResponse == [handler |-> "none", status |-> 0]

Init ==
    /\ current_expression = EmptyText
    /\ last_set = EmptyText
    /\ response = NoResponse
    /\ invoked = FALSE
    /\ expr = EmptyText
    /\ variables = None
    /\ outcome = NotCalled

Next ==
    \/ \E data \in Sources(MaxSlotNodes) : set_expression(data)
    \/ get_expression
    \/ \E data \in Bindings : execute_expression(data)

Spec == Init /\ [][Next]_vars

(***************************************************************************)
(* safe_evaluate alone, on every source and every binding table            *)
(***************************************************************************)
InitEval ==
    /\ current_expression = EmptyText
    /\ last_set = EmptyText
    /\ response = NoResponse
    /\ invoked = FALSE
    /\ expr \in Sources(MaxNodes)
    /\ variables \in Bindings
    /\ outcome = NotCalled

Evaluate ==
    /\ ~invoked
    /\ invoked' = TRUE
    /\ outcome' = safe_evaluate(expr, variables)
    /\ UNCHANGED <<current_expression, last_set, response, expr, variables>>

NextEval == Evaluate

SpecEval == InitEval /\ [][NextEval]_vars

(***************************************************************************)
(* What the properties below speak of                                      *)
(***************************************************************************)
Child(node, field) ==
    CASE field = "left" -> node.left
      [] field = "right" -> node.right
      [] field = "operand" -> node.operand
      [] field = "func" -> node.func

\* the node of tree t at path p
RECURSIVE Sub(_, _)
Sub(t, p) == IF p = <<>> THEN t ELSE Sub(Child(t, Head(p)), Tail(p))

Parsed == invoked /\ expr.text = "expr"
Visits == 1..Len(outcome.visited)
VisitedPaths == {outcome.visited[i] : i \in Visits}
StrictPrefix(p, q) == Len(p) < Len(q) /\ SubSeq(q, 1, Len(p)) = p

\* the items of the binding table of the call, an absent table having none
BoundItems == IF variables.none THEN {} ELSE variables.items

WhitelistKinds == {"Constant", "Name", "BinOp", "UnaryOp"}
ClassifiedMessages ==
    {MsgSyntaxError, MsgUnboundVariable, MsgUnsupportedOperator,
     MsgUnsupportedSyntax, MsgDivisionByZero}
Classified(e) == e.exc = "ValueError" /\ e.text \in ClassifiedMessages

\* the operands of the node at path p evaluate successfully
OperandsOk(node, p) ==
    IF node.kind = "BinOp"
    THEN /\ _eval(node.left, BoundItems, Append(p, "left")).out.ok
         /\ _eval(node.right, BoundItems, Append(p, "right")).out.ok
    ELSE _eval(node.operand, BoundItems, Append(p, "operand")).out.ok

\* the reference arithmetic: rationals, without types and without errors
RefAdd(a, b) == Rat(a.n * b.d + b.n * a.d, a.d * b.d)
RefNeg(a) == [n |-> -a.n, d |-> a.d]
RefMul(a, b) == Rat(a.n * b.n, a.d * b.d)
RefInv(a) == Rat(a.d, a.n)

RECURSIVE RefValue(_)
RefValue(t) ==
    IF t.kind = "Constant" THEN Rat(t.value.n, t.value.d)
    ELSE IF t.kind = "Name"
    THEN LET v == CHOOSE v \in BindValues : <<t.id, v>> \in BoundItems
         IN  Rat(v.n, v.d)
    ELSE IF t.kind = "UnaryOp"
    THEN IF t.op = "USub" THEN RefNeg(RefValue(t.operand)) ELSE RefValue(t.operand)
    ELSE CASE t.op = "Add" -> RefAdd(RefValue(t.left), RefValue(t.right))
           [] t.op = "Sub" -> RefAdd(RefValue(t.left), RefNeg(RefValue(t.right)))
           [] t.op = "Mult" -> RefMul(RefValue(t.left), RefValue(t.right))
           [] t.op = "Div" -> RefMul(RefValue(t.left), RefInv(RefValue(t.right)))

\* t is built from numeric literals, bound names, + - * / and unary - +,
\* and no division in it has a divisor of value zero
RECURSIVE Arithmetic(_)
Arithmetic(t) ==
    CASE t.kind = "Constant" -> t.value.ty \in {"int", "float"}
      [] t.kind = "Name" -> \E v \in BindValues : <<t.id, v>> \in BoundItems
      [] t.kind = "UnaryOp" -> t.op \in {"USub", "UAdd"} /\ Arithmetic(t.operand)
      [] t.kind = "BinOp" ->
            /\ t.op \in {"Add", "Sub", "Mult", "Div"}
            /\ Arithmetic(t.left)
            /\ Arithmetic(t.right)
            /\ t.op = "Div" => RefValue(t.right).n # 0
      [] OTHER -> FALSE

(***************************************************************************)
(* The properties                                                          *)
(***************************************************************************)

\* C1: when the walk reaches a node of a kind outside the whitelist, at any
\* depth, the evaluation ends with the ValueError for unsupported syntax and
\* no node below that node is evaluated.
C1_UnsupportedSyntaxRejected ==
    Parsed =>
        \A i \in Visits :
            LET p == outcome.visited[i]
            IN  Sub(expr.tree, p).kind \notin WhitelistKinds =>
                    /\ outcome.out = Raise("ValueError", MsgUnsupportedSyntax, "")
                    /\ \A q \in VisitedPaths : ~StrictPrefix(p, q)

\* a call below another node was reached, with its function left unevaluated
C1_Witness ==
    /\ Parsed
    /\ \E p \in VisitedPaths :
          /\ p # <<>>
          /\ Sub(expr.tree, p).kind = "Call"
          /\ Append(p, "func") \notin VisitedPaths
    /\ outcome.out = Raise("ValueError", MsgUnsupportedSyntax, "")

\* C2: a division whose operands both evaluate successfully and whose right
\* operand is exactly zero ends the evaluation with the ValueError for
\* division by zero: no value is returned and no other exception is raised.
C2_DivisionByZero ==
    Parsed =>
        \A i \in Visits :
            LET p == outcome.visited[i]
                node == Sub(expr.tree, p)
            IN  (/\ node.kind = "BinOp"
                 /\ node.op = "Div"
                 /\ OperandsOk(node, p)
                 /\ LET r == _eval(node.right, BoundItems, Append(p, "right")).out.value
                    IN  r.ty \in {"int", "float"} /\ r.n = 0)
                => outcome.out = Raise("ValueError", MsgDivisionByZero, "")

\* a division below another node, by a variable bound to 0.0
C2_Witness ==
    /\ Parsed
    /\ \E p \in VisitedPaths :
          /\ p # <<>>
          /\ Sub(expr.tree, p).kind = "BinOp"
          /\ Sub(expr.tree, p).op = "Div"
          /\ Sub(expr.tree, p).right.kind = "Name"
          /\ Append(p, "right") \in VisitedPaths
    /\ outcome.out = Raise("ValueError", MsgDivisionByZero, "")

\* C3: every failure of safe_evaluate is a ValueError of one of the five
\* classified kinds.
C3_EveryFailureClassified ==
    invoked => (outcome.out.ok \/ Classified(outcome.out))

\* C4: a BinOp with an operator outside {Add, Sub, Mult, Div}, or a UnaryOp
\* with an operator outside {USub, UAdd}, whose operands evaluate
\* successfully, ends the evaluation with the ValueError for an unsupported
\* operator that names the operator.
C4_UnsupportedOperatorRejected ==
    Parsed =>
        \A i \in Visits :
            LET p == outcome.visited[i]
                node == Sub(expr.tree, p)
            IN  (/\ \/ node.kind = "BinOp" /\ node.op \notin {"Add", "Sub", "Mult", "Div"}
                    \/ node.kind = "UnaryOp" /\ node.op \notin {"USub", "UAdd"}
                 /\ OperandsOk(node, p))
                => outcome.out = Raise("ValueError", MsgUnsupportedOperator, node.op)

\* C5: a Name the walk evaluates gives the value bound to exactly that name
\* in the binding table (an absent table being empty), and a name that is no
\* key of the table ends the evaluation with the ValueError for an unbound
\* variable that carries the name.
C5_VariableLookup ==
    Parsed =>
        \A i \in Visits :
            LET p == outcome.visited[i]
                node == Sub(expr.tree, p)
            IN  node.kind = "Name" =>
                    IF \E v \in BindValues : <<node.id, v>> \in BoundItems
                    THEN \E v \in BindValues :
                            /\ <<node.id, v>> \in BoundItems
                            /\ _eval(node, BoundItems, p).out = Return(v)
                    ELSE outcome.out = Raise("ValueError", MsgUnboundVariable, node.id)

\* x + X and the like with only the other spelling bound: the bound name was
\* evaluated, the other one is reported
C5_Witness ==
    /\ Parsed
    /\ Len(outcome.visited) >= 3
    /\ \E p \in VisitedPaths, q \in VisitedPaths :
          /\ Sub(expr.tree, p).kind = "Name"
          /\ Sub(expr.tree, q).kind = "Name"
          /\ \E v \in BindValues : <<Sub(expr.tree, p).id, v>> \in BoundItems
          /\ outcome.out = Raise("ValueError", MsgUnboundVariable, Sub(expr.tree, q).id)

\* C6: in a BinOp the left operand is evaluated before the right one, and a
\* failure of the left operand is the result of the whole evaluation, the
\* right operand being never evaluated.
C6_LeftBeforeRight ==
    Parsed =>
        \A i \in Visits :
            LET p == outcome.visited[i]
                node == Sub(expr.tree, p)
                pl == Append(p, "left")
                pr == Append(p, "right")
            IN  node.kind = "BinOp" =>
                    /\ \E j \in Visits :
                          /\ outcome.visited[j] = pl
                          /\ \A k \in Visits : outcome.visited[k] = pr => j < k
                    /\ LET l == _eval(node.left, BoundItems, pl).out
                       IN  ~l.ok => outcome.out = l /\ pr \notin VisitedPaths

\* both operands of a BinOp fail, differently, and the left failure is returned
C6_Witness ==
    /\ Parsed
    /\ expr.tree.kind = "BinOp"
    /\ LET l == _eval(expr.tree.left, BoundItems, <<"left">>).out
           r == _eval(expr.tree.right, BoundItems, <<"right">>).out
       IN  ~l.ok /\ ~r.ok /\ l # r /\ outcome.out = l
    /\ <<"right">> \notin VisitedPaths

\* C7: every successful evaluation returns a floating-point number.
C7_ResultIsFloat ==
    (invoked /\ outcome.out.ok) => outcome.out.value.ty = "float"

\* C8: on a tree of numeric literals, bound names, + - * / and unary - +
\* with no division by zero, the result is the value of the reference
\* arithmetic interpretation of the tree.
C8_ArithmeticValue ==
    (Parsed /\ Arithmetic(expr.tree)) =>
        /\ outcome.out.ok
        /\ outcome.out.value.ty \in {"int", "float"}
        /\ [n |-> outcome.out.value.n, d |-> outcome.out.value.d] = RefValue(expr.tree)

\* a negated division of value -2/3 or the like, as in -(2 / x) with x = 3.0
C8_Witness ==
    /\ Parsed
    /\ Arithmetic(expr.tree)
    /\ expr.tree.kind = "UnaryOp"
    /\ expr.tree.op = "USub"
    /\ expr.tree.operand.kind = "BinOp"
    /\ expr.tree.operand.op = "Div"
    /\ outcome.out.ok
    /\ outcome.out.value.n < 0
    /\ outcome.out.value.d # 1

\* C9: execute_expression answers a classified failure of the evaluator with
\* status 400 and its message, and any other failure with status 500 and a
\* detail that does not hold the text of the exception.
C9_ErrorResponses ==
    (response.handler = "execute_expression" /\ invoked /\ ~outcome.out.ok) =>
        IF Classified(outcome.out)
        THEN response.status = 400 /\ response.detail.text = StrOf(outcome.out)
        ELSE response.status = 500 /\ response.detail.text # StrOf(outcome.out)

\* C10: the slot holds the text of the latest set_expression call (the
\* empty text before the first): get_expression returns that text, get and
\* execute leave it alone, and execute on the empty slot answers 400
\* without calling safe_evaluate.
C10_SlotHoldsLastSet ==
    /\ current_expression = last_set
    /\ response.handler = "get_expression" => response.current_expression = last_set
    /\ (response.handler = "execute_expression" /\ last_set = EmptyText) =>
            (response.status = 400 /\ ~invoked)

\* an execute that failed in evaluation, the slot still holding its text
C10_Witness ==
    /\ response.handler = "execute_expression"
    /\ invoked
    /\ ~outcome.out.ok
    /\ current_expression = expr
    /\ current_expression # EmptyText

====
